---- MODULE Spec2Model ----
(***************************************************************************)
(* UiSettingsClient (the settings cache of build_context_menu.ts, lines    *)
(* 177-361): a local cache of settings entries, an observer set, and one   *)
(* asynchronous write path (_update) that writes optimistically, issues a  *)
(* batchSet request and, when the response arrives, either refreshes the   *)
(* whole cache from the returned snapshot or reverts the local write.      *)
(*                                                                         *)
(* buildEuiContextMenuPanels (lines 31-153) is the other unit of the file: *)
(* a recursive projection of an action list onto a flat list of menu       *)
(* panels.  It shares no state with the client; its call stack is explicit *)
(* here, one frame per call that has not returned.                         *)
(*                                                                         *)
(* JavaScript values are pairs <<typeof, text>>: undefined, null, strings, *)
(* numbers (by their decimal text) and objects (by their JSON text).  An   *)
(* absent property reads as undefined, so an entry is a record with a      *)
(* fixed set of fields in which Undef stands for "absent or undefined".    *)
(***************************************************************************)
EXTENDS Naturals, FiniteSets, Sequences, TLC

VARIABLES
  defaults,          \* this._defaults : key -> entry
  cache,             \* this._cache    : key -> entry
  observers,         \* this._updateObservers
  calls,             \* the _update calls issued so far, one record per call
  serverUser,        \* remote endpoint: stored user override per key
  serverOverridden,  \* remote endpoint: keys locked by the server
  overrideLog,       \* the overrideLocalDefault calls made so far
  lastGet,           \* the get() call made by the last step (NoGet if none)
  actions,           \* buildEuiContextMenuPanels: the action list passed in
  stack,             \* its calls that have not returned, outermost first
  panels,            \* what the outermost call returned
  returned,          \* whether the outermost call has returned
  recursions         \* how many recursive calls were made (line 69)

vars == <<defaults, cache, observers, calls, serverUser, serverOverridden,
          overrideLog, lastGet, actions, stack, panels, returned, recursions>>

menuVars == <<actions, stack, panels, returned, recursions>>

clientVars == <<defaults, cache, observers, calls, serverUser,
                serverOverridden, overrideLog, lastGet>>

(***************************************************************************)
(* Bounds of the model.                                                    *)
(***************************************************************************)
MaxCalls == 2
MaxObservedCalls == 1
MaxLocalOverrides == 1
MaxServerLocks == 1

Calls == 1 .. MaxCalls

(***************************************************************************)
(* JavaScript values.                                                      *)
(***************************************************************************)
Undef == <<"undefined", "">>
Null == <<"null", "">>
Str(s) == <<"string", s>>
Num(s) == <<"number", s>>
Obj(s) == <<"object", s>>
Thrown(e) == <<"throw", e>>
NaN == Num("NaN")

IsThrown(v) == v[1] = "throw"
TypeOf(v) == v[1]

\* Texts that are the decimal form of a number / the JSON form of an object.
NumberTexts == {"1", "2"}
ObjectTexts == {"{}", "{\"a\":1}"}

\* String(v), the coercion JSON.parse and parseFloat apply to their argument.
StringOf(v) ==
  CASE TypeOf(v) = "object" -> "[object Object]"
    [] TypeOf(v) = "undefined" -> "undefined"
    [] TypeOf(v) = "null" -> "null"
    [] OTHER -> v[2]

JSONParse(v) ==
  LET s == StringOf(v)
  IN  CASE s \in ObjectTexts -> Obj(s)
        [] s \in NumberTexts -> Num(s)
        [] s = "\"s\"" -> Str("s")
        [] s = "null" -> Null
        [] OTHER -> Thrown("SyntaxError")

JSONStringify(v) ==
  CASE TypeOf(v) = "object" -> Str(v[2])
    [] TypeOf(v) = "number" -> Str(v[2])
    [] TypeOf(v) = "null" -> Str("null")
    [] TypeOf(v) = "string" /\ v[2] = "s" -> Str("\"s\"")
    [] OTHER -> Undef

ParseFloat(v) ==
  LET s == StringOf(v)
  IN  IF s \in NumberTexts THEN Num(s) ELSE NaN

\* a === b: objects are equal by reference only, and every object that
\* reaches a comparison here was freshly built (a caller's argument, a
\* deserialized response); NaN is never equal to itself.
StrictEquals(a, b) ==
  a = b /\ TypeOf(a) # "object" /\ a # NaN

(***************************************************************************)
(* Entries, keys and the defaults table.                                   *)
(***************************************************************************)
Keys == {"s", "n", "j", "c"}
Observers == {"o1", "o2"}

NoEntry ==
  [declared |-> FALSE, value |-> Undef, type |-> "", userValue |-> Undef,
   isOverridden |-> FALSE]

EmptyEntry == [NoEntry EXCEPT !.declared = TRUE]

\* Variant: the property read at line 310 is the entry's value, so that a
\* value equal to the declared default collapses to null.
Prop_value(e, name) == e.value

\* entry[name] as JavaScript reads it: undefined for a property the entry
\* does not have.
Prop(e, name) == IF name \in DOMAIN e THEN e[name] ELSE Undef

\* options.defaults: a string setting, a number setting and a json setting;
\* "c" is a custom key the defaults do not declare.
InitialDefaults ==
  [k \in Keys |->
     CASE k = "s" -> [EmptyEntry EXCEPT !.value = Str("a")]
       [] k = "n" -> [EmptyEntry EXCEPT !.value = Num("1"), !.type = "number"]
       [] k = "j" -> [EmptyEntry EXCEPT !.value = Str("{}"), !.type = "json"]
       [] OTHER -> NoEntry]

\* Variant: the settings of the snapshot are not merged in.
defaultsDeep_defaultsOnly(d, s) == d

\* lodash defaultsDeep({}, d, s): per key and per property, d's value unless
\* it is undefined, then s's.
defaultsDeep(d, s) ==
  [k \in Keys |->
     IF ~d[k].declared /\ ~s[k].declared THEN NoEntry
     ELSE [declared |-> TRUE,
           value |-> IF d[k].value # Undef THEN d[k].value ELSE s[k].value,
           type |-> IF d[k].type # "" THEN d[k].type ELSE s[k].type,
           userValue |-> IF d[k].userValue # Undef THEN d[k].userValue
                         ELSE s[k].userValue,
           isOverridden |-> d[k].isOverridden \/ s[k].isOverridden]]

(***************************************************************************)
(* The remote settings endpoint (./ui_settings_api, not part of the        *)
(* reviewed source): it stores the value it is sent, removes the override  *)
(* on null, and answers with the full snapshot of what it stores.          *)
(***************************************************************************)
Snapshot(u, o) ==
  [k \in Keys |->
     IF u[k] = Undef /\ ~o[k] THEN NoEntry
     ELSE [EmptyEntry EXCEPT !.userValue = u[k], !.isOverridden = o[k]]]

ServerStore(u, key, newVal) ==
  [u EXCEPT ![key] = IF newVal = Null THEN Undef ELSE newVal]

\* What the server may hold when the client is constructed.
InitialServerStates ==
  { [user |-> [k \in Keys |-> Undef], overridden |-> [k \in Keys |-> FALSE]],
    [user |-> [k \in Keys |->
                 CASE k = "s" -> Str("b")
                   [] k = "n" -> Str("2")
                   [] k = "j" -> Str("{\"a\":1}")
                   [] OTHER -> Str("b")],
     overridden |-> [k \in Keys |-> k = "s"]] }

(***************************************************************************)
(* The synchronous methods of the client, as functions of the cache c.     *)
(***************************************************************************)
\* Variant: every key counts as declared.
isDeclared_always(c, key) == TRUE

isDeclared(c, key) == c[key].declared

\* Variant: only an undeclared key counts as default.
isDefault_undeclaredOnly(c, key) == ~isDeclared(c, key)

isDefault(c, key) ==
  ~isDeclared(c, key) \/ c[key].userValue \in {Undef, Null}

isOverridden(c, key) == isDeclared(c, key) /\ c[key].isOverridden

\* Variant: the assertion never throws.
assertUpdateAllowed_never(c, key) == FALSE

\* TRUE when assertUpdateAllowed(key) throws.
assertUpdateAllowed(c, key) == isOverridden(c, key)

get(c, key, defaultValue) ==
  IF ~isDeclared(c, key)
  THEN IF defaultValue # Undef THEN defaultValue
       ELSE Thrown("UnrecognizedSetting")
  ELSE LET userValue == c[key].userValue
           definedDefault == c[key].value
           type == c[key].type
           currentValue ==
             IF isDefault(c, key)
             THEN IF defaultValue = Undef THEN definedDefault ELSE defaultValue
             ELSE userValue
       IN  IF type = "json" THEN JSONParse(currentValue)
           ELSE IF type = "number" THEN ParseFloat(currentValue)
           ELSE currentValue

\* Variant: the broadcast is made but the cache is not written.
_setLocally_noWrite(c, key, newValue) ==
  [threw |-> assertUpdateAllowed(c, key), cache |-> c, oldValue |-> Undef]

\* _setLocally(key, newValue) up to its broadcast: whether it threw, the
\* cache it leaves and the oldValue it broadcasts.
_setLocally(c, key, newValue) ==
  IF assertUpdateAllowed(c, key)
  THEN [threw |-> TRUE, cache |-> c, oldValue |-> Undef]
  ELSE LET c1 == IF isDeclared(c, key) THEN c
                 ELSE [c EXCEPT ![key] = EmptyEntry]
           oldValue == get(c1, key, Undef)
           stored ==
             IF newValue = Null THEN Undef
             ELSE IF c1[key].type = "json" /\ TypeOf(newValue) # "string"
                  THEN JSONStringify(newValue)
                  ELSE newValue
       IN  IF IsThrown(oldValue)
           THEN [threw |-> TRUE, cache |-> c1, oldValue |-> Undef]
           ELSE [threw |-> FALSE,
                 cache |-> [c1 EXCEPT ![key].userValue = stored],
                 oldValue |-> oldValue]

\* Variant: the notification goes to every observer that ever was.
_broadcastUpdate_all(obs, key, newValue, oldValue) ==
  [key |-> key, newValue |-> newValue, oldValue |-> oldValue,
   to |-> Observers]

\* _broadcastUpdate(key, newValue, oldValue): one notification to every
\* observer that is in the set now.
_broadcastUpdate(obs, key, newValue, oldValue) ==
  [key |-> key, newValue |-> newValue, oldValue |-> oldValue, to |-> obs]

NoGet == [called |-> FALSE, key |-> "", defaultValue |-> Undef,
          result |-> Undef]

(***************************************************************************)
(* _update(key, value), lines 303-320: the synchronous part, up to the     *)
(* await of batchSet.  outcome is "overridden" (assertUpdateAllowed threw),*)
(* "unchanged" (returned true at line 316), "threw" (get or _setLocally    *)
(* threw) or "pending" (the request was issued).                           *)
(***************************************************************************)
_update(c, d, key, value) ==
  LET declared == isDeclared(c, key)
      oldVal == IF declared THEN c[key].userValue ELSE Undef
      newVal == IF d[key].declared /\ Prop(d[key], "defaultValue") = value
                THEN Null ELSE value
      unchanged == StrictEquals(oldVal, newVal)
      initialVal == IF declared THEN get(c, key, Undef) ELSE Undef
      w == _setLocally(c, key, newVal)
      quiet == [cache |-> c, newVal |-> newVal, initialVal |-> Undef,
                broadcast |-> FALSE, oldValue |-> Undef]
  IN  IF assertUpdateAllowed(c, key)
      THEN [outcome |-> "overridden"] @@ quiet
      ELSE IF unchanged
      THEN [outcome |-> "unchanged"] @@ quiet
      ELSE IF IsThrown(initialVal) \/ w.threw
      THEN [outcome |-> "threw"] @@ quiet
      ELSE [outcome |-> "pending", cache |-> w.cache, newVal |-> newVal,
            initialVal |-> initialVal, broadcast |-> TRUE,
            oldValue |-> w.oldValue]

(***************************************************************************)
(* The record of one _update call: where it stands, what it captured, how  *)
(* it resolved, how often notify.error ran for it and the notifications    *)
(* it broadcast.                                                           *)
(***************************************************************************)
NoSettings == [k \in Keys |-> NoEntry]

NoCall ==
  [st |-> "idle", key |-> "", value |-> Undef, newVal |-> Undef,
   initialVal |-> Undef, before |-> NoEntry, snap |-> NoSettings,
   requested |-> FALSE, overlapped |-> FALSE, result |-> "none",
   errors |-> 0, sent |-> <<>>]

FirstIdle(i) ==
  calls[i].st = "idle" /\ \A h \in Calls : h < i => calls[h].st # "idle"

InFlight(i) == calls[i].st \in {"pending", "processed"}

Issued == {i \in Calls : calls[i].st # "idle"}

\* What callers pass to set(key, val) for each key: strings for "s" and the
\* custom key, numbers or their text for "n", JSON text for "j".
SetValues(key) ==
  CASE key = "s" -> {Str("a"), Str("b")}
    [] key = "n" -> {Num("1"), Num("2"), Str("2")}
    [] key = "j" -> {Str("{}"), Str("{\"a\":1}"), Str("\"s\"")}
    [] OTHER -> {Str("b")}

\* What callers pass to overrideLocalDefault(key, newDefault).
NewDefaults(key) ==
  CASE key = "s" -> {Str("b")}
    [] key = "n" -> {Num("2")}
    [] key = "j" -> {Str("{\"a\":1}")}
    [] OTHER -> {Str("a")}

updateCall(key, value) ==
  \E i \in Calls :
    /\ FirstIdle(i)
    /\ LET r == _update(cache, defaults, key, value)
       IN  /\ cache' = r.cache
           /\ calls' =
                [h \in Calls |->
                   IF h # i
                   THEN [calls[h] EXCEPT
                           !.overlapped =
                              @ \/ (InFlight(h) /\ r.outcome = "pending")]
                   ELSE
                   [NoCall EXCEPT
                      !.st = IF r.outcome = "pending" THEN "pending"
                             ELSE "done",
                      !.key = key,
                      !.value = value,
                      !.newVal = r.newVal,
                      !.initialVal = r.initialVal,
                      !.before = cache[key],
                      !.requested = (r.outcome = "pending"),
                      !.overlapped = r.outcome = "pending"
                                     /\ \E g \in Calls : InFlight(g),
                      !.result = CASE r.outcome = "pending" -> "none"
                                   [] r.outcome = "unchanged" -> "true"
                                   [] r.outcome = "overridden" ->
                                        "OverriddenSettingError"
                                   [] OTHER -> "threw",
                      !.sent = IF r.broadcast
                               THEN <<_broadcastUpdate(observers, key,
                                                       r.newVal, r.oldValue)>>
                               ELSE <<>>]]
    /\ lastGet' = NoGet
    /\ UNCHANGED menuVars
    /\ UNCHANGED <<defaults, observers, serverUser, serverOverridden,
                   overrideLog>>

\* set(key, val), lines 239-241.
set(key, val) == updateCall(key, val)

\* remove(key), lines 243-245.
remove(key) == updateCall(key, Null)

\* The endpoint handles the batchSet request of call i.
ServerHandles(i) ==
  /\ calls[i].st = "pending"
  /\ serverUser' = ServerStore(serverUser, calls[i].key, calls[i].newVal)
  /\ calls' = [calls EXCEPT
                 ![i].st = "processed",
                 ![i].snap = Snapshot(serverUser', serverOverridden)]
  /\ lastGet' = NoGet
  /\ UNCHANGED menuVars
  /\ UNCHANGED <<defaults, cache, observers, serverOverridden, overrideLog>>

\* The server's configuration locks a key.
ServerLocks(key) ==
  /\ ~serverOverridden[key]
  /\ Cardinality({k \in Keys : serverOverridden[k]}) < MaxServerLocks
  /\ serverOverridden' = [serverOverridden EXCEPT ![key] = TRUE]
  /\ lastGet' = NoGet
  /\ UNCHANGED menuVars
  /\ UNCHANGED <<defaults, cache, observers, calls, serverUser, overrideLog>>

\* _update, lines 323-325: the await resolves with the snapshot.
updateResolved(i) ==
  /\ calls[i].st = "processed"
  /\ cache' = defaultsDeep(defaults, calls[i].snap)
  /\ calls' = [calls EXCEPT ![i].st = "done", ![i].result = "true"]
  /\ lastGet' = NoGet
  /\ UNCHANGED menuVars
  /\ UNCHANGED <<defaults, observers, serverUser, serverOverridden,
                 overrideLog>>

\* _update, lines 326-330: the await rejects (the request or its response
\* was lost, or the endpoint refused it).
updateRejected(i) ==
  /\ InFlight(i)
  /\ LET key == calls[i].key
         r == _setLocally(cache, key, calls[i].initialVal)
     IN  /\ cache' = r.cache
         /\ calls' =
              [calls EXCEPT
                 ![i].st = "done",
                 ![i].result = IF r.threw THEN "threw" ELSE "false",
                 ![i].errors = IF r.threw THEN @ ELSE @ + 1,
                 ![i].sent =
                    IF r.threw THEN @
                    ELSE Append(@, _broadcastUpdate(observers, key,
                                                    calls[i].initialVal,
                                                    r.oldValue))]
  /\ lastGet' = NoGet
  /\ UNCHANGED menuVars
  /\ UNCHANGED <<defaults, observers, serverUser, serverOverridden,
                 overrideLog>>

\* Variant: the broadcast is made whether or not a user override is stored.
overrideLocalDefault_alwaysBroadcast(key, newDefault) ==
  /\ Len(overrideLog) < MaxLocalOverrides
  /\ LET prevDefault == IF defaults[key].declared THEN defaults[key].value
                        ELSE Undef
         entry == [cache[key] EXCEPT !.declared = TRUE, !.value = newDefault]
     IN  /\ defaults' = [defaults EXCEPT ![key] =
                           [@ EXCEPT !.declared = TRUE, !.value = newDefault]]
         /\ cache' = [cache EXCEPT ![key] = entry]
         /\ overrideLog' =
              Append(overrideLog,
                     [key |-> key, newDefault |-> newDefault,
                      before |-> cache[key],
                      sent |-> <<_broadcastUpdate(observers, key,
                                                  newDefault, prevDefault)>>])
  /\ lastGet' = NoGet
  /\ UNCHANGED menuVars
  /\ UNCHANGED <<observers, calls, serverUser, serverOverridden>>

\* overrideLocalDefault(key, newDefault), lines 269-291.
overrideLocalDefault(key, newDefault) ==
  /\ Len(overrideLog) < MaxLocalOverrides
  /\ LET prevDefault == IF defaults[key].declared THEN defaults[key].value
                        ELSE Undef
         entry == [cache[key] EXCEPT !.declared = TRUE, !.value = newDefault]
         quiet == entry.userValue \notin {Undef, Null}
     IN  /\ defaults' = [defaults EXCEPT ![key] =
                           [@ EXCEPT !.declared = TRUE, !.value = newDefault]]
         /\ cache' = [cache EXCEPT ![key] = entry]
         /\ overrideLog' =
              Append(overrideLog,
                     [key |-> key, newDefault |-> newDefault,
                      before |-> cache[key],
                      sent |-> IF quiet THEN <<>>
                               ELSE <<_broadcastUpdate(observers, key,
                                                       newDefault,
                                                       prevDefault)>>])
  /\ lastGet' = NoGet
  /\ UNCHANGED menuVars
  /\ UNCHANGED <<observers, calls, serverUser, serverOverridden>>

\* subscribe(observer), lines 293-301, and the handle it returns.
subscribe(o) ==
  /\ o \notin observers
  /\ observers' = observers \cup {o}
  /\ lastGet' = NoGet
  /\ UNCHANGED menuVars
  /\ UNCHANGED <<defaults, cache, calls, serverUser, serverOverridden,
                 overrideLog>>

unsubscribe(o) ==
  /\ o \in observers
  /\ observers' = observers \ {o}
  /\ lastGet' = NoGet
  /\ UNCHANGED menuVars
  /\ UNCHANGED <<defaults, cache, calls, serverUser, serverOverridden,
                 overrideLog>>

\* A caller reads a setting: get(key, defaultValue), lines 197-237.
Fallbacks == {Undef, Str("fallback")}

getCall(key, defaultValue) ==
  /\ lastGet' = [called |-> TRUE, key |-> key, defaultValue |-> defaultValue,
                 result |-> get(cache, key, defaultValue)]
  /\ UNCHANGED menuVars
  /\ UNCHANGED <<defaults, cache, observers, calls, serverUser,
                 serverOverridden, overrideLog>>

(***************************************************************************)
(* buildEuiContextMenuPanels, lines 31-153.  A panel is known by its id,   *)
(* an action by its position in the action list; an action is the record   *)
(* of its parentPanelId, of what its isVisible returns and of the id of    *)
(* its childContextMenuPanel (NoPanel when it has none).                   *)
(***************************************************************************)
MaxActions == 3
MaxDepth == 5

RootPanel == "root"
NoPanel == ""
PanelIds == {RootPanel, "p1", "p2"}

Actions ==
  [parentPanelId : PanelIds, isVisible : BOOLEAN,
   childContextMenuPanel : (PanelIds \ {RootPanel}) \cup {NoPanel}]

ActionLists == UNION {[1 .. n -> Actions] : n \in 0 .. MaxActions}

\* Variant: every action is visible.
isVisible_always(a) == TRUE

\* action.isVisible({ embeddable, containerState }), line 62.
isVisible(a) == a.isVisible

\* Variant: every action belongs on every panel.
getActionsForPanel_all(contextMenuPanelId, allActions) ==
  {n \in 1 .. Len(allActions) : TRUE}

\* getActionsForPanel, lines 31-33: the positions of the actions that belong
\* on the panel; forEach visits them in the order of the list.
getActionsForPanel(contextMenuPanelId, allActions) ==
  {n \in 1 .. Len(allActions) :
     allActions[n].parentPanelId = contextMenuPanelId}

\* convertPanelActionToContextMenuItem, lines 136-153: the item of the action
\* at position n; panel is the id of its child panel, if it has one.
convertPanelActionToContextMenuItem(n, action) ==
  [action |-> n, panel |-> action.childContextMenuPanel]

\* Variant: a child panel whose id is already in the list is not added.
pushChildPanels_unique(childPanels, built) ==
  childPanels \o
    SelectSeq(built,
              LAMBDA p : \A n \in 1 .. Len(childPanels) :
                           childPanels[n].id # p.id)

\* childPanels.push(...buildEuiContextMenuPanels(...)), lines 68-75.
pushChildPanels(childPanels, built) == childPanels \o built

\* A call of buildEuiContextMenuPanels at lines 110-123: its panel, the
\* action forEach looks at next, and the items and childPanels arrays of
\* lines 58-59.
Frame(contextMenuPanel) ==
  [panel |-> contextMenuPanel, next |-> 1, items |-> <<>>,
   childPanels |-> <<>>]

\* What the call returns, lines 125-126.
contextMenuPanels(frame) ==
  <<[id |-> frame.panel, items |-> frame.items]>> \o frame.childPanels

Top == stack[Len(stack)]

Advance(frame) ==
  [stack EXCEPT ![Len(stack)] = frame]

\* forEach passes over an action that is not on the panel (line 32).
notForPanel ==
  /\ stack # <<>>
  /\ Top.next <= Len(actions)
  /\ Top.next \notin getActionsForPanel(Top.panel, actions)
  /\ stack' = Advance([Top EXCEPT !.next = @ + 1])
  /\ UNCHANGED <<actions, panels, returned, recursions>>
  /\ UNCHANGED clientVars

\* Lines 62-65: the action is not visible.
notVisible ==
  /\ stack # <<>>
  /\ Top.next \in getActionsForPanel(Top.panel, actions)
  /\ ~isVisible(actions[Top.next])
  /\ stack' = Advance([Top EXCEPT !.next = @ + 1])
  /\ UNCHANGED <<actions, panels, returned, recursions>>
  /\ UNCHANGED clientVars

\* Lines 78-84 for a visible action without a child panel.
pushItem ==
  /\ stack # <<>>
  /\ Top.next \in getActionsForPanel(Top.panel, actions)
  /\ isVisible(actions[Top.next])
  /\ actions[Top.next].childContextMenuPanel = NoPanel
  /\ stack' = Advance([Top EXCEPT
                         !.items = Append(@,
                            convertPanelActionToContextMenuItem(
                               Top.next, actions[Top.next])),
                         !.next = @ + 1])
  /\ UNCHANGED <<actions, panels, returned, recursions>>
  /\ UNCHANGED clientVars

\* Lines 67-69: a visible action with a child panel; the recursive call is
\* entered.  (The call stack of the model holds MaxDepth frames.)
recurse ==
  /\ stack # <<>>
  /\ Top.next \in getActionsForPanel(Top.panel, actions)
  /\ isVisible(actions[Top.next])
  /\ actions[Top.next].childContextMenuPanel # NoPanel
  /\ Len(stack) < MaxDepth
  /\ stack' = Append(stack, Frame(actions[Top.next].childContextMenuPanel))
  /\ recursions' = recursions + 1
  /\ UNCHANGED <<actions, panels, returned>>
  /\ UNCHANGED clientVars

\* Lines 87 and 125-126: forEach is over and the call returns; the caller,
\* if it is the forEach of an outer call, pushes the panels (line 68) and
\* the item of its action (lines 78-84).
returnPanels ==
  /\ stack # <<>>
  /\ Top.next > Len(actions)
  /\ IF Len(stack) = 1
     THEN /\ panels' = contextMenuPanels(Top)
          /\ returned' = TRUE
          /\ stack' = <<>>
     ELSE LET caller == stack[Len(stack) - 1]
          IN  /\ stack' =
                   Append(SubSeq(stack, 1, Len(stack) - 2),
                          [caller EXCEPT
                             !.childPanels =
                                pushChildPanels(@, contextMenuPanels(Top)),
                             !.items = Append(@,
                                convertPanelActionToContextMenuItem(
                                   caller.next, actions[caller.next])),
                             !.next = @ + 1])
              /\ UNCHANGED <<panels, returned>>
  /\ UNCHANGED <<actions, recursions>>
  /\ UNCHANGED clientVars

\* No projection is made.
notProjecting ==
  /\ actions = <<>>
  /\ stack = <<>>
  /\ panels = <<>>
  /\ returned = FALSE
  /\ recursions = 0

\* buildEuiContextMenuPanels({ contextMenuPanel: root, actions }) is called.
projecting ==
  /\ actions \in ActionLists
  /\ stack = <<Frame(RootPanel)>>
  /\ panels = <<>>
  /\ returned = FALSE
  /\ recursions = 0

\* The constructor, lines 178-191, given what the server holds.
constructed ==
  /\ defaults = InitialDefaults
  /\ \E s \in InitialServerStates :
       /\ serverUser = s.user
       /\ serverOverridden = s.overridden
       /\ cache = defaultsDeep(InitialDefaults, Snapshot(s.user, s.overridden))
  /\ calls = [i \in Calls |-> NoCall]
  /\ overrideLog = <<>>
  /\ lastGet = NoGet

(***************************************************************************)
(* Spec: overlapping updates against the endpoint, with one observer       *)
(* subscribed from the start and one that never subscribes.                *)
(***************************************************************************)
Init == constructed /\ observers = {"o1"} /\ notProjecting

Next ==
  \/ \E key \in Keys : \E val \in SetValues(key) : set(key, val)
  \/ \E key \in Keys : remove(key)
  \/ \E i \in Calls : ServerHandles(i)
  \/ \E i \in Calls : updateResolved(i)
  \/ \E i \in Calls : updateRejected(i)
  \/ \E key \in Keys : ServerLocks(key)
  \/ \E key \in Keys : \E d \in NewDefaults(key) : overrideLocalDefault(key, d)

Spec == Init /\ [][Next]_vars

(***************************************************************************)
(* SpecLocal: observers come and go and callers read settings while at     *)
(* most MaxObservedCalls updates are made.                                 *)
(***************************************************************************)
InitLocal == constructed /\ observers = {} /\ notProjecting

NextLocal ==
  \/ \E key \in Keys : \E val \in SetValues(key) :
       Cardinality(Issued) < MaxObservedCalls /\ set(key, val)
  \/ \E key \in Keys :
       Cardinality(Issued) < MaxObservedCalls /\ remove(key)
  \/ \E i \in Calls : ServerHandles(i)
  \/ \E i \in Calls : updateResolved(i)
  \/ \E i \in Calls : updateRejected(i)
  \/ \E key \in Keys : \E d \in NewDefaults(key) : overrideLocalDefault(key, d)
  \/ \E o \in Observers : subscribe(o)
  \/ \E o \in Observers : unsubscribe(o)
  \/ \E key \in Keys : \E d \in Fallbacks : getCall(key, d)

SpecLocal == InitLocal /\ [][NextLocal]_vars

(***************************************************************************)
(* SpecMenu: one projection of an action list of at most MaxActions        *)
(* actions, the client left alone.  SpecMenuLive adds that the projection, *)
(* which is synchronous code, keeps running while it can.                  *)
(***************************************************************************)
InitMenu ==
  /\ constructed
  /\ observers = {}
  /\ \A k \in Keys : serverUser[k] = Undef
  /\ projecting

NextMenu ==
  \/ notForPanel
  \/ notVisible
  \/ pushItem
  \/ recurse
  \/ returnPanels

SpecMenu == InitMenu /\ [][NextMenu]_vars

SpecMenuLive == SpecMenu /\ WF_vars(NextMenu)

(***************************************************************************)
(* Vocabulary of the properties below.                                     *)
(***************************************************************************)
\* Steps: call i is issued / the await of call i ends.
IssuedNow(i) == calls[i].st = "idle" /\ calls'[i].st # "idle"
SettledNow(i) == InFlight(i) /\ calls'[i].st = "done"

\* Call i did nothing: it returned true without a request, a notification
\* or a change of the cache.
NoOpNow(i) ==
  /\ calls'[i].st = "done"
  /\ calls'[i].result = "true"
  /\ ~calls'[i].requested
  /\ calls'[i].sent = <<>>
  /\ cache' = cache
  /\ serverUser' = serverUser

\* The value a serialized value v stands for in a setting of the given type.
Denoted(type, v) ==
  IF type = "json" THEN JSONParse(v)
  ELSE IF type = "number" THEN ParseFloat(v)
  ELSE v

\* How many notifications of call i reached observer o.
Received(i, o) ==
  Cardinality({n \in 1 .. Len(calls[i].sent) : o \in calls[i].sent[n].to})

\* The broadcasts made by the current step.
NewBroadcasts ==
  {calls'[i].sent[Len(calls'[i].sent)] :
     i \in {h \in Calls : Len(calls'[h].sent) > Len(calls[h].sent)}}
  \cup
  {overrideLog'[n].sent[1] :
     n \in {m \in 1 .. Len(overrideLog') :
              m > Len(overrideLog) /\ overrideLog'[m].sent # <<>>}}

(***************************************************************************)
(* C1: set(key, v) or remove(key) on a key the cache flags as              *)
(* server-overridden fails with the overridden-setting error, issues no    *)
(* batchSet request, notifies no observer and leaves every cache entry     *)
(* (and the server) unchanged.                                             *)
(***************************************************************************)
C1_OverriddenKeyIsRefused ==
  [][\A i \in Calls :
       (IssuedNow(i) /\ cache[calls'[i].key].isOverridden) =>
          /\ calls'[i].st = "done"
          /\ calls'[i].result = "OverriddenSettingError"
          /\ ~calls'[i].requested
          /\ calls'[i].sent = <<>>
          /\ cache' = cache
          /\ serverUser' = serverUser]_vars

C1_Witness ==
  \E i \in Calls :
    /\ calls[i].result = "OverriddenSettingError"
    /\ calls[i].before.isOverridden

(***************************************************************************)
(* C2: a single set(key, v) on a declared key (no other update in flight)  *)
(* whose batchSet fails leaves get(key) equal to what it returned before   *)
(* the call, and notify.error ran exactly once.                            *)
(***************************************************************************)
C2_FailedSetRestoresValue ==
  [][\A i \in Calls :
       (/\ SettledNow(i)
        /\ calls'[i].result # "true"
        /\ ~calls[i].overlapped
        /\ calls[i].value # Null
        /\ calls[i].before.declared
        /\ defaults[calls[i].key].value = calls[i].before.value) =>
          /\ get(cache', calls[i].key, Undef) = calls[i].initialVal
          /\ calls'[i].errors = 1]_vars

(***************************************************************************)
(* C3: set(key, d) with d the declared default of a declared key, once it  *)
(* has resolved successfully, leaves the key in the Default state: nothing *)
(* was sent or stored as an override, isDefault(key) holds and get(key)    *)
(* returns the declared default.                                           *)
(***************************************************************************)
C3_SetToDefaultClearsOverride ==
  [][\A i \in Calls :
       (/\ calls[i].st # "done"
        /\ calls'[i].st = "done"
        /\ calls'[i].result = "true"
        /\ calls'[i].requested
        /\ ~calls'[i].overlapped
        /\ \A h \in Calls : calls'[h].st \in {"idle", "done"}
        /\ calls'[i].before.declared
        /\ calls'[i].before.value # Undef
        /\ calls'[i].value = calls'[i].before.value
        /\ defaults'[calls'[i].key].value = calls'[i].value) =>
          /\ calls'[i].newVal = Null
          /\ cache'[calls'[i].key].userValue = Undef
          /\ isDefault(cache', calls'[i].key)
          /\ get(cache', calls'[i].key, Undef)
               = Denoted(cache'[calls'[i].key].type, calls'[i].value)]_vars

(***************************************************************************)
(* C4, as claimed: set(key, v) or remove(key) whose requested value equals *)
(* the value get(key) returns (for remove: a key already in the Default    *)
(* state) is a no-op: it returns true without a request, a notification or *)
(* a change of the cache.                                                  *)
(***************************************************************************)
C4_EffectiveValueIsNoOp ==
  [][\A i \in Calls :
       (/\ IssuedNow(i)
        /\ cache[calls'[i].key].declared
        /\ ~cache[calls'[i].key].isOverridden
        /\ IF calls'[i].value = Null
           THEN isDefault(cache, calls'[i].key)
           ELSE get(cache, calls'[i].key, Undef) = calls'[i].value) =>
          NoOpNow(i)]_vars

(***************************************************************************)
(* C4, amended: set(key, v) on a key that is not server-overridden, with v *)
(* a string or number identical to the user override stored for the key,   *)
(* is a no-op: it returns true without a request, a notification or a      *)
(* change of the cache.  (A key without a stored override has no such v.)  *)
(***************************************************************************)
C4_StoredOverrideIsNoOp ==
  [][\A i \in Calls :
       (/\ IssuedNow(i)
        /\ cache[calls'[i].key].declared
        /\ ~cache[calls'[i].key].isOverridden
        /\ TypeOf(calls'[i].value) \in {"string", "number"}
        /\ cache[calls'[i].key].userValue = calls'[i].value) =>
          NoOpNow(i)]_vars

C4_Witness ==
  \E i \in Calls :
    /\ calls[i].st = "done"
    /\ calls[i].result = "true"
    /\ ~calls[i].requested
    /\ calls[i].before.userValue = calls[i].value

(***************************************************************************)
(* C5: for an update that changes the value (it issued its request), every *)
(* observer subscribed before the call got exactly one notification from   *)
(* it if the request succeeded and exactly two if it failed; an observer   *)
(* that never subscribed got none.                                         *)
(***************************************************************************)
C5_NotificationCounts ==
  \A i \in Calls :
    (calls[i].st = "done" /\ calls[i].requested) =>
       \A o \in Observers :
         Received(i, o) = IF o \notin observers THEN 0
                          ELSE IF calls[i].result = "true" THEN 1
                          ELSE 2

(***************************************************************************)
(* C6: a notification goes to exactly the observers subscribed when it is  *)
(* broadcast: an observer that has unsubscribed gets none from any later   *)
(* optimistic write, revert or overrideLocalDefault, and every observer    *)
(* still subscribed gets each of them.                                     *)
(***************************************************************************)
C6_UnsubscribedGetNothing ==
  [][\A b \in NewBroadcasts : b.to = observers]_vars

C6_Witness ==
  \E i \in Calls : \E o \in Observers :
    /\ Len(calls[i].sent) = 2
    /\ o \in calls[i].sent[1].to
    /\ o \notin calls[i].sent[2].to
    /\ calls[i].sent[2].to # {}

(***************************************************************************)
(* C7: get(key) on an undeclared key throws the unrecognized-setting error *)
(* when no fallback is passed and returns the fallback when one is; the    *)
(* cache is unchanged and the key stays undeclared.                        *)
(***************************************************************************)
C7_GetUndeclared ==
  [][(lastGet'.called /\ ~cache[lastGet'.key].declared) =>
       /\ lastGet'.result =
            IF lastGet'.defaultValue = Undef
            THEN Thrown("UnrecognizedSetting")
            ELSE lastGet'.defaultValue
       /\ cache' = cache
       /\ ~cache'[lastGet'.key].declared]_vars

C7_Witness ==
  /\ lastGet.called
  /\ ~cache[lastGet.key].declared
  /\ lastGet.defaultValue = Undef
  /\ IsThrown(lastGet.result)
  /\ \E i \in Calls : calls[i].st = "done"

(***************************************************************************)
(* C8, as claimed: for every declared key with no user override stored,    *)
(* get(key) returns the default the defaults table declares for it.        *)
(***************************************************************************)
C8_GetReturnsDeclaredDefault ==
  \A k \in Keys :
    (cache[k].declared /\ cache[k].userValue = Undef) =>
       get(cache, k, Undef) = defaults[k].value

(***************************************************************************)
(* C8, amended: for every declared key with no user override stored,       *)
(* get(key) returns the default the defaults table declares for it, read   *)
(* as the key's type says: parsed as JSON for a json setting, through      *)
(* parseFloat for a number setting, as it is otherwise.                    *)
(***************************************************************************)
C8_GetReturnsDeserializedDefault ==
  \A k \in Keys :
    (cache[k].declared /\ cache[k].userValue = Undef) =>
       get(cache, k, Undef) = Denoted(defaults[k].type, defaults[k].value)

C8_Witness ==
  /\ Len(overrideLog) > 0
  /\ \E i \in Calls : calls[i].st = "done" /\ calls[i].result = "false"
  /\ \E k \in Keys :
       /\ cache[k].declared
       /\ cache[k].userValue = Undef
       /\ defaults[k] # InitialDefaults[k]

(***************************************************************************)
(* C9: every set or remove that passed the server-override check resolves  *)
(* to a boolean and never throws: true on success or no-op, false when its *)
(* batchSet failed, and then notify.error ran exactly once for it.         *)
(***************************************************************************)
C9_UpdateResolvesToBoolean ==
  \A i \in Calls :
    (calls[i].st = "done" /\ calls[i].result # "OverriddenSettingError") =>
       /\ calls[i].result \in {"true", "false"}
       /\ calls[i].errors = IF calls[i].result = "false" THEN 1 ELSE 0

VisibleOn(panelId) ==
  SelectSeq([n \in 1 .. Len(actions) |-> n],
            LAMBDA n : /\ actions[n].parentPanelId = panelId
                       /\ actions[n].isVisible)

\* One item for each of them, in that order.
ItemsOf(panelId) ==
  [m \in 1 .. Len(VisibleOn(panelId)) |->
     [action |-> VisibleOn(panelId)[m],
      panel |-> actions[VisibleOn(panelId)[m]].childContextMenuPanel]]

\* The child panels of the visible actions parented to a panel.
Children(panelId) ==
  {actions[n].childContextMenuPanel :
     n \in {m \in 1 .. Len(actions) :
              /\ actions[m].parentPanelId = panelId
              /\ actions[m].isVisible
              /\ actions[m].childContextMenuPanel # NoPanel}}

RECURSIVE Descendants(_, _)
Descendants(S, k) ==
  IF k = 0 THEN S
  ELSE Descendants(S \cup UNION {Children(q) : q \in S}, k - 1)

\* A cycle of the panel graph can be reached from the root panel through
\* visible actions.
CycleReachable ==
  \E q \in Descendants({RootPanel}, Cardinality(PanelIds)) :
    q \in Descendants(Children(q), Cardinality(PanelIds))

\* For an acyclic panel graph: 1 for the panel, plus, for every visible
\* action with a child panel met on it or below it, the panels of that
\* child, each time it is met.
RECURSIVE PanelCount(_), PanelCountFrom(_, _)
PanelCount(panelId) == 1 + PanelCountFrom(panelId, 1)
PanelCountFrom(panelId, n) ==
  IF n > Len(actions) THEN 0
  ELSE (IF /\ actions[n].parentPanelId = panelId
           /\ actions[n].isVisible
           /\ actions[n].childContextMenuPanel # NoPanel
        THEN PanelCount(actions[n].childContextMenuPanel)
        ELSE 0)
       + PanelCountFrom(panelId, n + 1)

(***************************************************************************)
(* C12: in what buildEuiContextMenuPanels returns, the items of each panel *)
(* are exactly one item per visible action parented to that panel, in the  *)
(* order of the action list; an action that is not visible has no item     *)
(* anywhere, and every panel after the first is the child panel of a       *)
(* visible action parented to a panel before it, so that the child panel   *)
(* of an invisible action is not in the output on its account.             *)
(***************************************************************************)
C12_InvisibleActionContributesNothing ==
  returned =>
    /\ \A m \in 1 .. Len(panels) : panels[m].items = ItemsOf(panels[m].id)
    /\ \A m \in 2 .. Len(panels) :
         \E h \in 1 .. (m - 1) : panels[m].id \in Children(panels[h].id)

C12_Witness ==
  /\ returned
  /\ Len(panels[1].items) = 2
  /\ \E n \in 1 .. Len(actions) :
       /\ actions[n].parentPanelId = RootPanel
       /\ ~actions[n].isVisible
       /\ actions[n].childContextMenuPanel # NoPanel
       /\ \A m \in 1 .. Len(panels) :
            panels[m].id # actions[n].childContextMenuPanel

(***************************************************************************)
(* C13: when buildEuiContextMenuPanels returns (the panel graph is then    *)
(* acyclic), the number of panels is 1 plus the number of visible actions  *)
(* with a child panel met during the projection, each counted every time   *)
(* it is met (panels are not de-duplicated), and the first panel is the    *)
(* root panel.                                                             *)
(***************************************************************************)
C13_PanelCountPerOccurrence ==
  returned =>
    /\ Len(panels) = 1 + recursions
    /\ Len(panels) = PanelCount(RootPanel)
    /\ panels[1].id = RootPanel

C13_Witness ==
  /\ returned
  /\ Len(panels) = 3
  /\ panels[2].id = panels[3].id
  /\ recursions = 2

(***************************************************************************)
(* C20: buildEuiContextMenuPanels returns for every action list whose      *)
(* panel graph has no cycle reachable from the root panel through visible  *)
(* actions; when there is such a cycle it never returns, and the depth of  *)
(* the recursion reaches the bound of the call stack.                      *)
(***************************************************************************)
C20_ReturnsIffAcyclic ==
  /\ [](CycleReachable => ~returned)
  /\ (CycleReachable ~> Len(stack) = MaxDepth)
  /\ (~CycleReachable ~> returned)

C20_Witness ==
  /\ CycleReachable
  /\ Len(stack) = MaxDepth
  /\ ~returned
  /\ \E n \in 1 .. Len(actions) : ~actions[n].isVisible

(***************************************************************************)
(* Vocabulary of the properties of overrideLocalDefault: the call made by  *)
(* the current step, and what it leaves alone.                             *)
(***************************************************************************)
OverridesNow == Len(overrideLog') = Len(overrideLog) + 1

LastOverride == overrideLog'[Len(overrideLog')]

\* No request, only the default of the key replaced (in the defaults table
\* and in the cache), the stored override and every other key as they
\* were, and a notification if and only if no user override is stored.
OverrideFrame(key, d) ==
  /\ calls' = calls
  /\ serverUser' = serverUser
  /\ serverOverridden' = serverOverridden
  /\ defaults'[key].declared
  /\ defaults'[key].value = d
  /\ defaults'[key].type = defaults[key].type
  /\ cache'[key] = [cache[key] EXCEPT !.declared = TRUE, !.value = d]
  /\ \A k \in Keys \ {key} :
       defaults'[k] = defaults[k] /\ cache'[k] = cache[k]
  /\ IF cache[key].userValue = Undef
     THEN /\ Len(LastOverride.sent) = 1
          /\ LastOverride.sent[1].to = observers
          /\ LastOverride.sent[1].key = key
     ELSE LastOverride.sent = <<>>

(***************************************************************************)
(* C11, as claimed: overrideLocalDefault(key, d) issues no request,        *)
(* replaces only the default of that key, in the defaults table and in the *)
(* cache, leaves the stored user override and every other key unchanged,   *)
(* notifies the observers if and only if no user override is stored for    *)
(* the key, and get(key) afterwards returns d exactly when no user         *)
(* override is stored.                                                     *)
(***************************************************************************)
C11_GetReturnsNewDefault ==
  [][OverridesNow =>
       /\ OverrideFrame(LastOverride.key, LastOverride.newDefault)
       /\ (get(cache', LastOverride.key, Undef) = LastOverride.newDefault)
            <=> (cache[LastOverride.key].userValue = Undef)]_vars

(***************************************************************************)
(* C11, amended: the same frame and the same notification rule; get(key)   *)
(* afterwards returns d read as the key's type says (parsed as JSON for a  *)
(* json setting, through parseFloat for a number setting, d itself         *)
(* otherwise) when no user override is stored, and what it returned before *)
(* the call when one is stored.                                            *)
(***************************************************************************)
C11_GetReturnsDeserializedNewDefault ==
  [][OverridesNow =>
       /\ OverrideFrame(LastOverride.key, LastOverride.newDefault)
       /\ get(cache', LastOverride.key, Undef) =
            IF cache[LastOverride.key].userValue = Undef
            THEN Denoted(cache'[LastOverride.key].type,
                         LastOverride.newDefault)
            ELSE get(cache, LastOverride.key, Undef)]_vars

C11_Witness ==
  /\ Len(overrideLog) = 1
  /\ overrideLog[1].before.userValue = Undef
  /\ overrideLog[1].before.type = "json"
  /\ Len(overrideLog[1].sent) = 1
  /\ overrideLog[1].sent[1].to = {"o1"}
  /\ \E i \in Calls : InFlight(i)

(***************************************************************************)
(* C14: when the successful response of an update is processed, the cache  *)
(* becomes the merge of the defaults table with the snapshot of that       *)
(* response: for every key the cached user override (and server lock) is   *)
(* the snapshot's, absent if the snapshot has none, whatever other pending *)
(* updates wrote locally; the default and type of every key of the         *)
(* defaults table are the table's, those installed by overrideLocalDefault *)
(* included; and a key is declared exactly if the table or the snapshot    *)
(* has it.                                                                 *)
(***************************************************************************)
C14_RefreshIsMergeOfDefaultsAndSnapshot ==
  [][\A i \in Calls :
       (/\ calls[i].st = "processed"
        /\ calls'[i].st = "done"
        /\ calls'[i].result = "true") =>
          \A k \in Keys :
            /\ cache'[k].userValue = calls[i].snap[k].userValue
            /\ cache'[k].isOverridden = calls[i].snap[k].isOverridden
            /\ cache'[k].declared =
                 (defaults[k].declared \/ calls[i].snap[k].declared)
            /\ defaults[k].declared =>
                 /\ cache'[k].value = defaults[k].value
                 /\ cache'[k].type = defaults[k].type]_vars

C14_Witness ==
  \E i, h \in Calls :
    /\ calls[i].st = "done"
    /\ calls[i].result = "true"
    /\ calls[i].requested
    /\ InFlight(h)
    /\ calls[h].newVal # Null
    /\ cache[calls[h].key].userValue = calls[i].snap[calls[h].key].userValue
    /\ cache[calls[h].key].userValue # calls[h].newVal
    /\ Len(overrideLog) = 1
    /\ cache[overrideLog[1].key].value = overrideLog[1].newDefault
    /\ defaults[overrideLog[1].key] # InitialDefaults[overrideLog[1].key]

(***************************************************************************)
(* Vocabulary of the properties of overlapping updates.                    *)
(***************************************************************************)
\* Calls h and i are two updates of the same key, each issued while the
\* other was in flight; h has resolved and i resolves in the current step;
\* the default of the key was not replaced by overrideLocalDefault.
LastOfTwoNow(h, i) ==
  /\ h # i
  /\ calls[h].st = "done"
  /\ SettledNow(i)
  /\ calls[h].requested /\ calls[i].requested
  /\ calls[h].overlapped /\ calls[i].overlapped
  /\ calls[h].key = calls[i].key
  /\ \A n \in 1 .. Len(overrideLog) : overrideLog[n].key # calls[i].key

(***************************************************************************)
(* C15: when two updates of the same key overlap, each made its optimistic *)
(* write and broadcast when it was issued, and once both have resolved the *)
(* cache holds for the key what the response processed last produced: the  *)
(* user override of its snapshot if it succeeded, the value get(key)       *)
(* returned before that call if it failed.                                 *)
(***************************************************************************)
C15_LastResponseDecides ==
  [][\A h, i \in Calls :
       LastOfTwoNow(h, i) =>
          /\ Len(calls[h].sent) >= 1 /\ Len(calls[i].sent) >= 1
          /\ IF calls'[i].result = "true"
             THEN cache'[calls[i].key].userValue =
                    calls[i].snap[calls[i].key].userValue
             ELSE get(cache', calls[i].key, Undef) = calls[i].initialVal]_vars

(***************************************************************************)
(* C16: a single update (no other update in flight while it was, the       *)
(* default of its key not replaced meanwhile, its value not the declared   *)
(* default) whose batchSet fails leaves                                    *)
(* the cache entry of the key exactly as it was before the call: a key in  *)
(* the Default state is in the Default state with no user override stored, *)
(* a key with a user override has the same override stored, and an         *)
(* undeclared key is undeclared.                                           *)
(***************************************************************************)
C16_FailedUpdateRestoresEntry ==
  [][\A i \in Calls :
       (/\ SettledNow(i)
        /\ calls'[i].result # "true"
        /\ ~calls[i].overlapped
        /\ calls[i].value # calls[i].before.value
        /\ \A n \in 1 .. Len(overrideLog) :
             overrideLog[n].key # calls[i].key) =>
          /\ cache'[calls[i].key] = calls[i].before
          /\ isDefault(cache', calls[i].key)
               = isDefault([cache EXCEPT ![calls[i].key] = calls[i].before],
                           calls[i].key)]_vars

(***************************************************************************)
(* C17: whenever a step of the client (an optimistic write, a revert, an   *)
(* overrideLocalDefault or the refresh of the cache after a successful     *)
(* update) changes the value get(key) returns for a key that is declared   *)
(* before and after it, every observer subscribed at that moment is        *)
(* notified for that key in the same step.                                 *)
(***************************************************************************)
C17_EveryChangeIsBroadcast ==
  [][\A k \in Keys :
       (/\ cache[k].declared
        /\ cache'[k].declared
        /\ get(cache', k, Undef) # get(cache, k, Undef)) =>
          \E b \in NewBroadcasts : b.key = k /\ b.to = observers]_vars

(***************************************************************************)
(* C18: in every notification made by set, remove or the revert of a       *)
(* failed update on a declared key, oldValue is the value get(key)         *)
(* returned just before the local change and newValue is the value         *)
(* get(key) returns just after it (for remove: the declared default, not   *)
(* null).                                                                  *)
(***************************************************************************)
C18_NotificationCarriesGetValues ==
  [][\A i \in Calls :
       (/\ Len(calls'[i].sent) > Len(calls[i].sent)
        /\ cache[calls'[i].key].declared) =>
          LET b == calls'[i].sent[Len(calls'[i].sent)]
          IN  /\ b.oldValue = get(cache, b.key, Undef)
              /\ b.newValue = get(cache', b.key, Undef)]_vars

(***************************************************************************)
(* C19: whenever no update is in flight, the user override cached for each *)
(* key is the one the server stores for it, for every interleaving of      *)
(* overlapping updates and every arrival order of their responses.  It is  *)
(* stated for the runs in which every request succeeded, so that no lost   *)
(* request or response is involved.                                        *)
(***************************************************************************)
C19_IdleCacheEqualsServer ==
  (\A i \in Calls :
     /\ calls[i].st \in {"idle", "done"}
     /\ calls[i].requested => calls[i].result = "true") =>
    \A k \in Keys : cache[k].userValue = serverUser[k]

====
